---- MODULE Spec2Model ----
(***************************************************************************)
(* Model of mcorbit/model.py: ln_prior, ln_like and ln_prob, the           *)
(* log-probability that an MCMC sampler evaluates for a candidate orbit.   *)
(*                                                                         *)
(* Floats are modelled as extended values: a finite value carries an       *)
(* integer payload in tenths (v stands for v/10), and -inf, +inf and NaN   *)
(* are separate kinds that combine by the IEEE-754 rules numpy follows.    *)
(* Angles are whole degrees, coordinates are whole numbers.                *)
(***************************************************************************)
EXTENDS Integers, Sequences, FiniteSets, TLC

(* ------------------------------ bounds -------------------------------- *)
\* number of orbital parameters (rows of space, components of theta)
NDim == 3
\* every component of a proposed theta is drawn from 0..MaxTheta
MaxTheta == 2
\* number of points the orbit generator returns per orbit
NPts == 4
\* number of observations in data
NObs == 2
\* number of concurrent evaluations of ln_prob
NWorkers == 2

Workers == 1..NWorkers

(* ------------------------- extended floats ---------------------------- *)
Fin(v) == [k |-> "fin", v |-> v]
NegInf == [k |-> "ninf", v |-> 0]
PosInf == [k |-> "pinf", v |-> 0]
NaN == [k |-> "nan", v |-> 0]

\* np.isfinite
IsFinite(x) == x.k = "fin"

\* float addition: NaN is absorbing, inf + (-inf) is NaN
ExtAdd(a, b) ==
  IF a.k = "nan" \/ b.k = "nan" THEN NaN
  ELSE IF a.k = "fin" /\ b.k = "fin" THEN Fin(a.v + b.v)
  ELSE IF a.k = "fin" THEN b
  ELSE IF b.k = "fin" THEN a
  ELSE IF a.k = b.k THEN a
  ELSE NaN

ExtNeg(a) ==
  IF a.k = "fin" THEN Fin(0 - a.v)
  ELSE IF a.k = "ninf" THEN PosInf
  ELSE IF a.k = "pinf" THEN NegInf
  ELSE NaN

\* float subtraction: (-inf) - (-inf) is NaN
ExtSub(a, b) == ExtAdd(a, ExtNeg(b))

\* round(10 * ln(n)) for n = 1..32
Ln10 == <<0, 7, 11, 14, 16, 18, 19, 21, 22, 23, 24, 25, 26, 26, 27, 28,
          28, 29, 29, 30, 30, 31, 31, 32, 32, 33, 33, 33, 34, 34, 34, 35>>

\* np.log of a count: np.log(0) is -inf (a warning, no exception)
NpLog(n) == IF n = 0 THEN NegInf ELSE Fin(Ln10[n])

\* round(10 * ln(1 + exp(-d/10))) for d = 0..29; 0 from d = 30 on
Log1pExp10 == <<7, 6, 6, 6, 5, 5, 4, 4, 4, 3, 3, 3, 3, 2, 2, 2, 2, 2, 2, 1,
                1, 1, 1, 1, 1, 1, 1, 1, 1, 1>>

Max2(a, b) == IF a >= b THEN a ELSE b
Min2(a, b) == IF a <= b THEN a ELSE b
Abs(a) == IF a >= 0 THEN a ELSE 0 - a

\* np.logaddexp(a, b) = log(exp(a) + exp(b))
LogAddExp(a, b) ==
  IF a.k = "nan" \/ b.k = "nan" THEN NaN
  ELSE IF a.k = "pinf" \/ b.k = "pinf" THEN PosInf
  ELSE IF a.k = "ninf" THEN b
  ELSE IF b.k = "ninf" THEN a
  ELSE LET d == Abs(a.v - b.v)
       IN Fin(Max2(a.v, b.v) + (IF d < Len(Log1pExp10) THEN Log1pExp10[d + 1] ELSE 0))

(* ------------------------------ ln_prior ------------------------------ *)
\* the linear-domain prior: 1/den, or +inf once a box of zero width divided
PriorOne == [k |-> "fin", den |-> 1]

\* prior *= (1. / (pmax - pmin)); 1./0. on numpy floats is inf
PriorTimesRecip(prior, width) ==
  IF prior.k = "pinf" \/ width = 0 THEN [k |-> "pinf", den |-> 0]
  ELSE [k |-> "fin", den |-> prior.den * width]

\* np.log(prior)
NpLogPrior(prior) == IF prior.k = "pinf" THEN PosInf ELSE Fin(0 - Ln10[prior.den])

\* theta[i] < pmin or theta[i] > pmax
OutOfBoxLowerOnly(x, pmin, pmax) == x < pmin
OutOfBox(x, pmin, pmax) == x < pmin \/ x > pmax

\* theta[-2] > theta[-1]: periapsis beyond apoapsis
NotPeriapsisOrEqual(rper, rap) == rper >= rap
NotPeriapsis(rper, rap) == rper > rap

\* orbits.angular_momentum(r1, r2): the closed form lives in mcorbit/orbits.py;
\* kept symbolic as the pair of radii it is computed from
AngularMomentum(r1, r2) == [aux |-> "l_cons", r1 |-> r1, r2 |-> r2]

\* the 0. returned as auxiliary on a reject
ZeroAux == [aux |-> "zero", r1 |-> 0, r2 |-> 0]

\* the loop over the rows of space
RECURSIVE PriorLoop(_, _, _, _)
PriorLoop(theta, space, i, prior) ==
  IF i > Len(space) THEN [rejected |-> FALSE, prior |-> prior]
  ELSE LET pmin == Min2(space[i][1], space[i][2])
           pmax == Max2(space[i][1], space[i][2])
       IN IF OutOfBox(theta[i], pmin, pmax)
          THEN [rejected |-> TRUE, prior |-> prior]
          ELSE PriorLoop(theta, space, i + 1, PriorTimesRecip(prior, pmax - pmin))

\* ln_prior(theta, space) -> (lnprior, l_cons)
LnPrior(theta, space) ==
  LET r == PriorLoop(theta, space, 1, PriorOne)
      n == Len(theta)
  IN IF r.rejected THEN <<NegInf, ZeroAux>>
     ELSE IF NotPeriapsis(theta[n - 1], theta[n]) THEN <<NegInf, ZeroAux>>
     ELSE <<NpLogPrior(r.prior), AngularMomentum(theta[n - 1], theta[n])>>

(* --------------------------- orbit generator -------------------------- *)
\* orbits.GCRA, orbits.GCDEC: the reference centre, in grid units
GCRA == 1
GCDEC == 1

\* the eight compass offsets (east, north) of a ring around the centre
Compass == << <<0, 1>>, <<1, 1>>, <<1, 0>>, <<1, -1>>,
              <<0, -1>>, <<-1, -1>>, <<-1, 0>>, <<-1, 1>> >>

Sign(x) == IF x > 0 THEN 1 ELSE IF x < 0 THEN 0 - 1 ELSE 0

\* orbits.model(theta, l_cons, coords=True): a deterministic map from theta
\* to NPts sky points.  The first parameter turns the ring, a zero apoapsis
\* collapses it onto the centre, the velocity alternates along the path.
OrbitModel(theta, l_cons) ==
  [k \in 1..NPts |->
     LET d == Compass[((2 * theta[1] + k - 1) % 8) + 1]
         r == Sign(l_cons.r2)
     IN [ra |-> GCRA + r * d[1], dec |-> GCDEC + r * d[2],
         radial_velocity |-> k % 2]]

(* ------------------------ projection in ln_prob ----------------------- *)
\* np.arctan2(y, x) in degrees on the offsets the grid produces
Atan2Deg(y, x) ==
  CASE y = 0 /\ x >= 0 -> 0
    [] y > 0 /\ x > 0 -> 45
    [] y > 0 /\ x = 0 -> 90
    [] y > 0 /\ x < 0 -> 135
    [] y = 0 /\ x < 0 -> 180
    [] y < 0 /\ x < 0 -> 0 - 135
    [] y < 0 /\ x = 0 -> 0 - 90
    [] y < 0 /\ x > 0 -> 0 - 45

\* theta = (np.arctan2(zero_ra, zero_dec) + pi) * 180 / pi
RawAngles(c) ==
  [k \in 1..Len(c) |-> Atan2Deg(c[k].ra - GCRA, c[k].dec - GCDEC) + 180]

\* the east-of-north tweak with whereminus taken after the first update
CorrectSequential(t) ==
  LET whereplus == {k \in DOMAIN t : t[k] < 270}
      t1 == [k \in DOMAIN t |-> IF k \in whereplus THEN t[k] + 90 ELSE t[k]]
      whereminus == {k \in DOMAIN t : t1[k] >= 270}
  IN [k \in DOMAIN t |-> IF k \in whereminus THEN t1[k] - 270 ELSE t1[k]]

\* whereplus and whereminus are both taken from the raw angles, then
\* theta[whereplus] += 90 and theta[whereminus] -= 270
Correct(t) ==
  LET whereplus == {k \in DOMAIN t : t[k] < 270}
      whereminus == {k \in DOMAIN t : t[k] >= 270}
      t1 == [k \in DOMAIN t |-> IF k \in whereplus THEN t[k] + 90 ELSE t[k]]
  IN [k \in DOMAIN t |-> IF k \in whereminus THEN t1[k] - 270 ELSE t1[k]]

\* (theta >= pos_ang[0]) * (theta <= pos_ang[1])
InSectorOpen(pa, pos_ang) == pa > pos_ang[1] /\ pa < pos_ang[2]
InSector(pa, pos_ang) == pa >= pos_ang[1] /\ pa <= pos_ang[2]

\* np.where(mask)[0]: the indices that pass, ascending
WhereTheta(pa, pos_ang) ==
  SelectSeq([k \in 1..Len(pa) |-> k], LAMBDA k : InSector(pa[k], pos_ang))

\* model = np.array([ra, dec, c.radial_velocity.value]).T
ModelRows(c) == [k \in 1..Len(c) |-> <<c[k].ra, c[k].dec, c[k].radial_velocity>>]

\* model[wheretheta]
TakeRows(model, wheretheta) == [i \in 1..Len(wheretheta) |-> model[wheretheta[i]]]

\* (model - data_min) * data_scale * 2 - 1, row by row
Normalise(model, data_min, data_scale) ==
  [i \in 1..Len(model) |->
     [j \in 1..3 |-> (model[i][j] - data_min[j]) * data_scale[j] * 2 - 1]]

(* ------------------------------- ln_like ------------------------------ *)
SqDist(x, m, dims) ==
  LET sq(j) == (x[j] - m[j]) * (x[j] - m[j])
  IN (IF 1 \in dims THEN sq(1) ELSE 0) + (IF 2 \in dims THEN sq(2) ELSE 0)
     + (IF 3 \in dims THEN sq(3) ELSE 0)

\* multivariate_normal.logpdf(data, mean, cov, allow_singular=True), in tenths:
\*   cov = identity:     -q/2 - (3/2) ln(2 pi)
\*   cov = diag(1,1,0):  -q/2 - ln(2 pi) on the support (equal velocity),
\*                       -inf off it
LogPdf(data, mean, cov) ==
  [j \in 1..Len(data) |->
     IF cov = "identity" THEN Fin(0 - 5 * SqDist(data[j], mean, {1, 2, 3}) - 28)
     ELSE IF data[j][3] = mean[3] THEN Fin(0 - 5 * SqDist(data[j], mean, {1, 2}) - 18)
     ELSE NegInf]

\* model[::2, :] without the step
EveryRow(s) == s
\* model[::2, :]: rows 0, 2, 4, ...
EveryOther(s) == [i \in 1..((Len(s) + 1) \div 2) |-> s[2 * i - 1]]

\* for model_pt in model: lprob = np.logaddexp(lprob, logpdf(...));
\* acc lists the rows of the given cloud that were accumulated (0-based)
RECURSIVE LikeLoop(_, _, _, _, _, _, _)
LikeLoop(data, cov, sub, idx, i, lprob, acc) ==
  IF i > Len(sub) THEN [lprob |-> lprob, acc |-> acc]
  ELSE LET dens == LogPdf(data, sub[i], cov)
       IN LikeLoop(data, cov, sub, idx, i + 1,
                   [j \in 1..Len(data) |-> LogAddExp(lprob[j], dens[j])],
                   Append(acc, idx[i]))

\* np.sum
RECURSIVE NpSum(_, _)
NpSum(a, i) == IF i > Len(a) THEN Fin(0) ELSE ExtAdd(a[i], NpSum(a, i + 1))

\* ln_like(data, weights, lprobscale, model, cov); the record holds the
\* function's locals when it returns, val is the value returned
LnLike(data, weights, lprobscale, model, cov) ==
  LET lprob0 == [j \in 1..Len(data) |-> NegInf]
      sub == EveryOther(model)
      idx == EveryOther([i \in 1..Len(model) |-> i - 1])
      loop == LikeLoop(data, cov, sub, idx, 1, lprob0, <<>>)
      count == Len(sub)
      lprob1 == [j \in 1..Len(data) |-> ExtSub(loop.lprob[j], NpLog(count))]
      lprob2 == [j \in 1..Len(data) |-> ExtAdd(lprob1[j], lprobscale)]
  IN [model |-> sub, acc |-> loop.acc, count |-> count, lprob |-> lprob2,
      val |-> NpSum(lprob2, 1)]

(* -------------------------------- state ------------------------------ *)
\* the read-only bundle handed to every evaluation
VARIABLES data, weights, lprobscale, space, cov, pos_ang, data_min, data_scale
\* the positions the sampler may propose
VARIABLES proposals
\* per worker: where its evaluation of ln_prob stands, the caller's theta,
\* the locals of ln_prob, the pair returned, the steps taken so far
VARIABLES pc, arg, frame, ret, calls

shared == <<data, weights, lprobscale, space, cov, pos_ang, data_min, data_scale>>
vars == <<data, weights, lprobscale, space, cov, pos_ang, data_min, data_scale,
          proposals, pc, arg, frame, ret, calls>>

None == <<>>

ThetaSet == [1..NDim -> 0..MaxTheta]

\* every row (0, 2) except one row taken from RowSet; rows may be given in
\* either order, and may have zero width
WideRow == <<0, 2>>
RowSet == {<<1, 2>>, <<1, 0>>, <<1, 1>>}
SpaceSet ==
  {[i \in 1..NDim |-> WideRow]}
  \cup {[i \in 1..NDim |-> IF i = d THEN r ELSE WideRow] : d \in 1..NDim, r \in RowSet}

PosAngSet == {<<0, 360>>, <<0, 90>>, <<90, 270>>, <<270, 90>>, <<100, 120>>}

DataSet ==
  {[j \in 1..NObs |-> <<1, 1, 1>>],
   [j \in 1..NObs |-> IF j % 2 = 1 THEN <<-1, 1, -1>> ELSE <<1, 3, 1>>]}

EmptyFrame ==
  [theta |-> None, lnprior |-> None, l_cons |-> None, c |-> None, t |-> None,
   wheretheta |-> None, model |-> None, like |-> None]

InitWorkers ==
  /\ pc = [w \in Workers |-> "idle"]
  /\ arg = [w \in Workers |-> None]
  /\ frame = [w \in Workers |-> EmptyFrame]
  /\ ret = [w \in Workers |-> None]
  /\ calls = [w \in Workers |-> <<>>]

Init ==
  /\ data \in DataSet
  /\ weights = [j \in 1..NObs |-> 1]
  /\ lprobscale \in {Fin(0), Fin(0 - 7)}
  /\ space \in SpaceSet
  /\ cov \in {"identity", "singular"}
  /\ pos_ang \in PosAngSet
  /\ data_min = <<0, 0, 0>>
  /\ data_scale = <<1, 1, 1>>
  /\ proposals = ThetaSet
  /\ InitWorkers

\* a pool of walkers on the diagonal of a wide box, evaluated concurrently
InitPar ==
  /\ data = [j \in 1..NObs |-> <<1, 1, 1>>]
  /\ weights = [j \in 1..NObs |-> 1]
  /\ lprobscale = Fin(0)
  /\ space \in {[i \in 1..NDim |-> WideRow], [i \in 1..NDim |-> IF i = 1 THEN <<1, 2>> ELSE WideRow]}
  /\ cov \in {"identity", "singular"}
  /\ pos_ang \in {<<0, 360>>, <<0, 90>>, <<270, 90>>}
  /\ data_min = <<0, 0, 0>>
  /\ data_scale = <<1, 1, 1>>
  /\ proposals = {[i \in 1..NDim |-> v] : v \in 0..MaxTheta}
  /\ InitWorkers

(* ------------------------------- ln_prob ------------------------------ *)
\* if not np.isfinite(lnprior)
PriorRejectedNegInfOnly(lnprior) == lnprior = NegInf
PriorRejected(lnprior) == ~IsFinite(lnprior)

\* theta = np.arctan2(...) binds the local name to a new array: the caller's
\* theta is the object it was
ArgAfterInPlace(callerTheta, angles) == angles
ArgAfterRebind(callerTheta, angles) == callerTheta

\* the sampler calls ln_prob(theta, ...) on a worker
Call(w) ==
  /\ pc[w] = "idle"
  /\ \E th \in proposals :
       /\ arg' = [arg EXCEPT ![w] = th]
       /\ frame' = [frame EXCEPT ![w] = [EmptyFrame EXCEPT !.theta = th]]
  /\ ret' = [ret EXCEPT ![w] = None]
  /\ calls' = [calls EXCEPT ![w] = <<>>]
  /\ pc' = [pc EXCEPT ![w] = "prior"]
  /\ UNCHANGED <<shared, proposals>>

\* lnprior, l_cons = ln_prior(theta, space); return -inf, -inf if not finite
Prior(w) ==
  /\ pc[w] = "prior"
  /\ LET r == LnPrior(frame[w].theta, space)
     IN /\ frame' = [frame EXCEPT ![w].lnprior = r[1], ![w].l_cons = r[2]]
        /\ calls' = [calls EXCEPT ![w] = Append(@, "ln_prior")]
        /\ IF PriorRejected(r[1])
           THEN /\ ret' = [ret EXCEPT ![w] = <<NegInf, NegInf>>]
                /\ pc' = [pc EXCEPT ![w] = "done"]
           ELSE /\ ret' = ret
                /\ pc' = [pc EXCEPT ![w] = "orbit"]
  /\ UNCHANGED <<shared, proposals, arg>>

\* c = orbits.model(theta, l_cons, coords=True)
Orbit(w) ==
  /\ pc[w] = "orbit"
  /\ frame' = [frame EXCEPT ![w].c = OrbitModel(frame[w].theta, frame[w].l_cons)]
  /\ calls' = [calls EXCEPT ![w] = Append(@, "orbits.model")]
  /\ pc' = [pc EXCEPT ![w] = "project"]
  /\ UNCHANGED <<shared, proposals, arg, ret>>

\* position angles, east-of-north tweak, sector mask, normalisation
Project(w) ==
  /\ pc[w] = "project"
  /\ LET t == RawAngles(frame[w].c)
         pa == Correct(t)
         wh == WhereTheta(pa, pos_ang)
         model == Normalise(TakeRows(ModelRows(frame[w].c), wh), data_min, data_scale)
     IN /\ frame' = [frame EXCEPT ![w].t = t, ![w].theta = pa,
                                  ![w].wheretheta = wh, ![w].model = model]
        /\ arg' = [arg EXCEPT ![w] = ArgAfterRebind(@, pa)]
  /\ calls' = [calls EXCEPT ![w] = Append(@, "project")]
  /\ pc' = [pc EXCEPT ![w] = "like"]
  /\ UNCHANGED <<shared, proposals, ret>>

\* lnlike = ln_like(data, weights, lprobscale, model, cov)
Like(w) ==
  /\ pc[w] = "like"
  /\ frame' = [frame EXCEPT ![w].like =
                 LnLike(data, weights, lprobscale, frame[w].model, cov)]
  /\ calls' = [calls EXCEPT ![w] = Append(@, "ln_like")]
  /\ pc' = [pc EXCEPT ![w] = "combine"]
  /\ UNCHANGED <<shared, proposals, arg, ret>>

\* if not np.isfinite(lnlike): return lnprior, -np.inf
\* return lnprior + lnlike, lnprior
Combine(w) ==
  /\ pc[w] = "combine"
  /\ LET lnprior == frame[w].lnprior
         lnlike == frame[w].like.val
     IN ret' = [ret EXCEPT ![w] =
                  IF ~IsFinite(lnlike) THEN <<lnprior, NegInf>>
                  ELSE <<ExtAdd(lnprior, lnlike), lnprior>>]
  /\ pc' = [pc EXCEPT ![w] = "done"]
  /\ UNCHANGED <<shared, proposals, arg, frame, calls>>

\* the sampler takes the pair and drops the proposal; the worker is free
Return(w) ==
  /\ pc[w] = "done"
  /\ pc' = [pc EXCEPT ![w] = "idle"]
  /\ frame' = [frame EXCEPT ![w] = EmptyFrame]
  /\ ret' = [ret EXCEPT ![w] = None]
  /\ calls' = [calls EXCEPT ![w] = <<>>]
  /\ arg' = [arg EXCEPT ![w] = None]
  /\ UNCHANGED <<shared, proposals>>

\* one evaluation at a time
Next ==
  \/ Call(1)
  \/ Prior(1)
  \/ Orbit(1)
  \/ Project(1)
  \/ Like(1)
  \/ Combine(1)
  \/ Return(1)

Spec == Init /\ [][Next]_vars

\* evaluations spread over the pool, interleaved step by step
NextPar ==
  \/ \E w \in Workers : Call(w)
  \/ \E w \in Workers : Prior(w)
  \/ \E w \in Workers : Orbit(w)
  \/ \E w \in Workers : Project(w)
  \/ \E w \in Workers : Like(w)
  \/ \E w \in Workers : Combine(w)
  \/ \E w \in Workers : Return(w)

SpecPar == InitPar /\ [][NextPar]_vars

(* ------------------------- ln_prob as a whole ------------------------- *)
\* ln_prob(theta, data, weights, lprobscale, space, cov, pos_ang, data_min,
\* data_scale) -> (lnprob, lnprior), evaluated in one piece
LnProb(theta, d, wts, scale, sp, cv, pang, dmin, dscale) ==
  LET prior == LnPrior(theta, sp)
  IN IF PriorRejected(prior[1]) THEN <<NegInf, NegInf>>
     ELSE LET c == OrbitModel(theta, prior[2])
              pa == Correct(RawAngles(c))
              model == Normalise(TakeRows(ModelRows(c), WhereTheta(pa, pang)),
                                 dmin, dscale)
              lnlike == LnLike(d, wts, scale, model, cv).val
          IN IF ~IsFinite(lnlike) THEN <<prior[1], NegInf>>
             ELSE <<ExtAdd(prior[1], lnlike), prior[1]>>

(* ------------------------------- claims ------------------------------- *)
\* the steps of the evaluation on w that have run
Stepped(w, name) == \E i \in 1..Len(calls[w]) : calls[w][i] = name
Evaluating(w) == pc[w] # "idle"

RowMin(i) == Min2(space[i][1], space[i][2])
RowMax(i) == Max2(space[i][1], space[i][2])
OutOfBounds(th) == \E i \in 1..Len(space) : th[i] < RowMin(i) \/ th[i] > RowMax(i)

\* C1: a theta with some component outside its box never gets past the prior
\* check, and the pair ln_prob returns for it is exactly (-inf, -inf)
C1_OutOfBoundsRejected ==
  \A w \in Workers :
    (Evaluating(w) /\ OutOfBounds(arg[w])) =>
      /\ pc[w] \in {"prior", "done"}
      /\ pc[w] = "done" => ret[w] = <<NegInf, NegInf>>

\* a rejected theta whose first component is inside its box and whose last
\* component is above its box
C1_Witness ==
  \E w \in Workers :
    /\ pc[w] = "done"
    /\ arg[w][1] >= RowMin(1) /\ arg[w][1] <= RowMax(1)
    /\ arg[w][NDim] > RowMax(NDim)
    /\ ret[w] = <<NegInf, NegInf>>

\* C2: ln_prior is the first step of every evaluation, and the orbit
\* generator, the projection and ln_like run only after it returned a finite
\* log-prior
C2_PriorBeforeOrbit ==
  \A w \in Workers :
    /\ \A i \in 1..Len(calls[w]) :
         calls[w][i] \in {"orbits.model", "project", "ln_like"} =>
           /\ i > 1
           /\ calls[w][1] = "ln_prior"
           /\ IsFinite(frame[w].lnprior)
    /\ pc[w] \in {"orbit", "project", "like", "combine"} =>
         /\ Stepped(w, "ln_prior")
         /\ IsFinite(frame[w].lnprior)

\* an evaluation that ended on a non-finite log-prior with ln_prior its only step
C2_Witness ==
  \E w \in Workers :
    /\ pc[w] = "done"
    /\ Stepped(w, "ln_prior")
    /\ ~IsFinite(frame[w].lnprior)
    /\ calls[w] = <<"ln_prior">>

\* C3: ln_like on an empty model cloud returns exactly -inf
C3_EmptyCloudNegInf ==
  \A w \in Workers :
    (pc[w] = "combine" /\ Len(frame[w].model) = 0 /\ Len(data) > 0) =>
      frame[w].like.val = NegInf

\* C4: the first value ln_prob returns is finite only if the log-prior and
\* the log-likelihood both are, and it is -inf whenever the log-likelihood is
\* not finite
C4_NonFiniteNeverSwallowed ==
  \A w \in Workers :
    pc[w] = "done" =>
      /\ IsFinite(ret[w][1]) =>
           /\ IsFinite(frame[w].lnprior)
           /\ Stepped(w, "ln_like")
           /\ IsFinite(frame[w].like.val)
      /\ (Stepped(w, "ln_like") /\ ~IsFinite(frame[w].like.val)) =>
           ret[w][1] = NegInf

\* C5: whenever the log-prior is finite, the second value ln_prob returns is
\* that log-prior
C5_SecondIsPrior ==
  \A w \in Workers :
    (pc[w] = "done" /\ IsFinite(frame[w].lnprior)) => ret[w][2] = frame[w].lnprior

\* C6: no step of any evaluation changes the shared bundle or the caller's
\* theta, and every evaluation, however interleaved with the others, returns
\* the pair ln_prob gives for its theta when run alone
C6_NoMutationSameResult ==
  /\ [][/\ shared' = shared
        /\ \A w \in Workers :
             (pc[w] # "idle" /\ pc'[w] # "idle") => arg'[w] = arg[w]]_vars
  /\ [](\A w \in Workers :
          pc[w] = "done" =>
            ret[w] = LnProb(arg[w], data, weights, lprobscale, space, cov,
                            pos_ang, data_min, data_scale))

\* one evaluation has returned a finite posterior while another, for a
\* different theta, is past its projection
C6_Witness ==
  \E w1, w2 \in Workers :
    /\ w1 # w2
    /\ pc[w1] = "done" /\ IsFinite(ret[w1][1])
    /\ pc[w2] \in {"like", "combine"}
    /\ arg[w1] # arg[w2]

\* C7: for a theta inside its box, ln_prior rejects with (-inf, 0.) exactly
\* when theta[-2] > theta[-1]; otherwise, the circular case included, it does
\* not reject and returns the angular momentum of (theta[-2], theta[-1])
C7_OrderingConstraint ==
  \A w \in Workers :
    (Stepped(w, "ln_prior") /\ ~OutOfBounds(arg[w])) =>
      LET rper == arg[w][NDim - 1]
          rap == arg[w][NDim]
      IN IF rper > rap
         THEN frame[w].lnprior = NegInf /\ frame[w].l_cons = ZeroAux
         ELSE /\ frame[w].lnprior # NegInf
              /\ frame[w].l_cons = AngularMomentum(rper, rap)

\* a circular orbit inside its box was accepted by ln_prior
C7_Witness ==
  \E w \in Workers :
    /\ Stepped(w, "ln_prior")
    /\ ~OutOfBounds(arg[w])
    /\ arg[w][NDim - 1] = arg[w][NDim]
    /\ frame[w].l_cons = AngularMomentum(arg[w][NDim], arg[w][NDim])
    /\ IsFinite(frame[w].lnprior)

\* C8: every raw angle t lies in 0..360 and is corrected to t + 90 when
\* t < 270 and to t - 270 when t >= 270; the corrected angle lies in 0..359
\* and is (t + 90) mod 360
C8_AngleCorrection ==
  \A w \in Workers :
    Stepped(w, "project") =>
      \A k \in 1..Len(frame[w].t) :
        LET t == frame[w].t[k]
            pa == frame[w].theta[k]
        IN /\ t >= 0 /\ t <= 360
           /\ pa = (IF t < 270 THEN t + 90 ELSE t - 270)
           /\ pa >= 0 /\ pa < 360
           /\ pa = (t + 90) % 360

\* an orbit with a raw angle on the threshold and another just below it
C8_Witness ==
  \E w \in Workers :
    /\ Stepped(w, "project")
    /\ \E k1, k2 \in 1..Len(frame[w].t) :
         /\ frame[w].t[k1] = 270 /\ frame[w].theta[k1] = 0
         /\ frame[w].t[k2] = 225 /\ frame[w].theta[k2] = 315

\* C9: the sector mask keeps exactly the points whose corrected angle pa has
\* pos_ang[0] <= pa <= pos_ang[1], in orbit order, and none when
\* pos_ang[0] > pos_ang[1]
C9_SectorMask ==
  \A w \in Workers :
    Stepped(w, "project") =>
      LET pa == frame[w].theta
          wh == frame[w].wheretheta
          rows == ModelRows(frame[w].c)
      IN /\ \A k \in 1..Len(pa) :
              (\E i \in 1..Len(wh) : wh[i] = k)
                <=> (pos_ang[1] <= pa[k] /\ pa[k] <= pos_ang[2])
         /\ \A i, j \in 1..Len(wh) : i < j => wh[i] < wh[j]
         /\ Len(frame[w].model) = Len(wh)
         /\ \A i \in 1..Len(wh) :
              frame[w].model[i] =
                [j \in 1..3 |-> (rows[wh[i]][j] - data_min[j]) * data_scale[j] * 2 - 1]
         /\ pos_ang[1] > pos_ang[2] => Len(frame[w].model) = 0

\* a mask that keeps some points and drops others, one kept on each end of
\* the range
C9_Witness ==
  \E w \in Workers :
    /\ Stepped(w, "project")
    /\ Len(frame[w].wheretheta) > 0
    /\ Len(frame[w].wheretheta) < Len(frame[w].theta)
    /\ \E i, j \in 1..Len(frame[w].wheretheta) :
         /\ frame[w].theta[frame[w].wheretheta[i]] = pos_ang[1]
         /\ frame[w].theta[frame[w].wheretheta[j]] = pos_ang[2]

\* C10: for a cloud of n >= 1 points ln_like accumulates exactly the points
\* at indices 0, 2, 4, ..., each once, ceil(n/2) of them, and the count whose
\* log it subtracts is the number of points accumulated
C10_EvenIndicesAndCount ==
  \A w \in Workers :
    (Stepped(w, "ln_like") /\ Len(frame[w].model) >= 1) =>
      LET n == Len(frame[w].model)
          like == frame[w].like
      IN /\ like.acc = [i \in 1..((n + 1) \div 2) |-> 2 * (i - 1)]
         /\ \A i \in 1..Len(like.acc) : like.model[i] = frame[w].model[like.acc[i] + 1]
         /\ Len(like.model) = Len(like.acc)
         /\ like.count = Len(like.acc)

\* ln_like ran on a cloud of three points: two accumulated, one skipped
C10_Witness ==
  \E w \in Workers :
    /\ Stepped(w, "ln_like")
    /\ Len(frame[w].model) = 3
    /\ frame[w].like.acc = <<0, 2>>
    /\ frame[w].like.count = 2

====
